---------------------------- MODULE Spec2Model ----------------------------
(***************************************************************************)
(* StorageAncillaryServicesExtension                                       *)
(* (examples/unit_commitment/storage_as_extension.py) as a state machine.  *)
(*                                                                         *)
(* The optimisation model object is a record.  An expression is a bag of   *)
(* terms (a sum with unit coefficients): a term <<name, i, t>> is the      *)
(* component `name` at index (i, t); the term that carries the name of a   *)
(* base collection stands for the whole expression the base model built    *)
(* there.  A constraint is [body, lower, upper]; an optional value (a      *)
(* bound, the model object itself) is <<>> for None and <<v>> for v.       *)
(***************************************************************************)
EXTENDS Integers, Sequences, FiniteSets, Bags, TLC

\* ---------------------------------------------------------------- bounds
NumTimePeriods == 2
MaxApplications == 2
MaxValue == 3

\* ------------------------------------------------------------ input sets
StorageIds == {"s1", "s2"}
StorageOrder == <<"s1", "s2">>
BusIds == {"b1", "b2"}
BusOrder == <<"b1", "b2">>
ZoneIds == {"z1", "z2"}
ZoneOrder == <<"z1", "z2">>
NoBus == "none"

None == <<>>
Some(v) == <<v>>

\* Names of the three zonal requirement collections of the base model.
RegCollection == "EnforceZonalRegulationUpRequirement"
SpinCollection == "EnforceZonalSpinningReserveRequirement"
FlexCollection == "ZonalFlexUpRequirementConstr"
Collections == {RegCollection, SpinCollection, FlexCollection}

\* model_data    self.model_data: the zone collection the lookups read
\* base_model    what create_tight_unit_commitment_model(model_data) builds
\* uc_model      self.uc_model: None, or the model object being extended
\* applications  calls of _add_storage_ancillary_services on uc_model so far
\* raised        whether the last of those calls ended in an exception
\* handed        whether solve was called, and the model= it passed on
\* sol           None, or the solver's values at one inspected index
VARIABLES model_data, base_model, uc_model, applications, raised, handed, sol

vars == <<model_data, base_model, uc_model, applications, raised, handed, sol>>

\* ------------------------------------------------- base model components
TimePeriods == 1 .. NumTimePeriods
Buses == BusIds
StageSet == {"Stage_1", "Stage_2"}

\* The periods of a planning stage: the first period, then the rest.
GenerationTimeInStage(st) ==
    IF st = "Stage_1" THEN {1} ELSE 2 .. NumTimePeriods

RegulationMinutes == 10
FlexRampMinutes == 10

\* x/60. * minutes; the ramp limits drawn by Init make the division exact.
PerMinutes(ramp, minutes) == (ramp * minutes) \div 60

Min(a, b) == IF a <= b THEN a ELSE b

\* The sequence `order` restricted to the members of S (iteration order).
InOrder(order, S) == SelectSeq(order, LAMBDA x : x \in S)

RECURSIVE SumBag(_)
\* sum(...) over a sequence of terms: the bag of the terms, one copy per
\* occurrence.
SumBag(terms) ==
    IF terms = <<>> THEN EmptyBag
    ELSE SetToBag({Head(terms)}) (+) SumBag(Tail(terms))

\* -------------------------------------------------------- zone membership
\* _is_bus_in_zone: KeyError when the zone has no entry in
\* model_data.data['elements']['zone']; False without a 'buses' list.
IsBusInZoneRaises(data, zone) == zone \notin DOMAIN data.zone

IsBusInZone(data, bus, zone) ==
    /\ data.zone[zone].has_buses
    /\ bus \in data.zone[zone].buses

\* The (s, b) pairs the two nested loops reach with s in StorageAtBus[b].
RECURSIVE Located(_, _, _)
Located(m, ss, bs) ==
    IF ss = <<>> THEN <<>>
    ELSE IF bs = <<>> THEN Located(m, Tail(ss), BusOrder)
    ELSE (IF Head(ss) \in m.StorageAtBus[Head(bs)]
          THEN << <<Head(ss), Head(bs)>> >> ELSE <<>>)
         \o Located(m, ss, Tail(bs))

LocatedPairs(m) == Located(m, InOrder(StorageOrder, m.Storage), BusOrder)

\* storage_by_zone[zone] after the loops: one append per located pair whose
\* bus is in the zone.
Appended(pairs, data, zone) ==
    LET sel == SelectSeq(pairs, LAMBDA p : IsBusInZone(data, p[2], zone))
    IN  [i \in 1 .. Len(sel) |-> sel[i][1]]

\* _get_storage_in_reg_zone: builds storage_by_zone over every regulation
\* zone (so every regulation zone is looked up), then returns
\* storage_by_zone.get(zone, []).
GetStorageInRegZone(m, data, zone) ==
    LET pairs == LocatedPairs(m)
        fails == /\ pairs # <<>>
                 /\ \E z \in m.RegulationZones : IsBusInZoneRaises(data, z)
    IN  IF fails THEN [raises |-> TRUE, units |-> <<>>]
        ELSE [raises |-> FALSE,
              units |-> IF zone \in m.RegulationZones
                        THEN Appended(pairs, data, zone) ELSE <<>>]

\* _get_storage_in_zone: the generic lookup; zone_set is not read.
GetStorageInZone(m, data, zone, zone_set) ==
    LET pairs == LocatedPairs(m)
        fails == pairs # <<>> /\ IsBusInZoneRaises(data, zone)
    IN  IF fails THEN [raises |-> TRUE, units |-> <<>>]
        ELSE [raises |-> FALSE, units |-> Appended(pairs, data, zone)]

GetStorageInSpinZone(m, data, zone) ==
    GetStorageInZone(m, data, zone, m.SpinningReserveZones)

GetStorageInFlexZone(m, data, zone) ==
    GetStorageInZone(m, data, zone, m.FlexRampZones)

\* ------------------------------------------------------- splice of a zone
\* The service variable a collection's requirement aggregates.
ServiceVar(coll) ==
    CASE coll = RegCollection -> "StorageRegulationReserveUp"
      [] coll = SpinCollection -> "StorageSpinningReserve"
      [] coll = FlexCollection -> "StorageFlexUpProvided"

\* The zone set that indexes a collection.
ZonesOf(m, coll) ==
    CASE coll = RegCollection -> m.RegulationZones
      [] coll = SpinCollection -> m.SpinningReserveZones
      [] coll = FlexCollection -> m.FlexRampZones

\* The lookup each splice loop calls for its zone.
StorageInZone(m, data, coll, zone) ==
    CASE coll = RegCollection -> GetStorageInRegZone(m, data, zone)
      [] coll = SpinCollection -> GetStorageInSpinZone(m, data, zone)
      [] coll = FlexCollection -> GetStorageInFlexZone(m, data, zone)

\* collection.items(): the indices (zone, period), zone-major.
RECURSIVE ItemsFrom(_, _)
ItemsFrom(zs, ts) ==
    IF zs = <<>> THEN <<>>
    ELSE [i \in 1 .. Len(ts) |-> <<Head(zs), ts[i]>>] \o ItemsFrom(Tail(zs), ts)

Items(m, coll) ==
    ItemsFrom(InOrder(ZoneOrder, ZonesOf(m, coll)),
              [t \in 1 .. NumTimePeriods |-> t])

\* sum(m.<var>[s,t] for s in units)
StorageContribution(var, units, t) ==
    SumBag([i \in 1 .. Len(units) |-> <<var, units[i], t>>])

\* A splice that adds the contribution only where the body lacks it.
NewExprOnce(constr, storage_contribution) ==
    [body |-> IF storage_contribution \sqsubseteq constr.body
              THEN constr.body
              ELSE constr.body (+) storage_contribution,
     lower |-> constr.upper,
     upper |-> None]

\* new_expr = expr.expr + storage_contribution >= expr.upper
\* (`a >= b` is the constraint with body a, lower bound b, no upper bound).
NewExpr(constr, storage_contribution) ==
    [body |-> constr.body (+) storage_contribution,
     lower |-> constr.upper,
     upper |-> None]

\* m.<coll>[idx] = new_expr
SetConstraint(m, coll, idx, new_expr) ==
    [m EXCEPT !.zonal[coll][idx] = new_expr]

\* for idx, constr in m.<coll>.items(): ... ; a KeyError of the lookup ends
\* the loop with the earlier indices already replaced.
RECURSIVE SpliceItems(_, _, _, _)
SpliceItems(m, data, coll, items) ==
    IF items = <<>> THEN [m |-> m, raises |-> FALSE]
    ELSE LET idx == Head(items)
             found == StorageInZone(m, data, coll, idx[1])
         IN  IF found.raises THEN [m |-> m, raises |-> TRUE]
             ELSE SpliceItems(
                    SetConstraint(m, coll, idx,
                        NewExpr(m.zonal[coll][idx],
                            StorageContribution(ServiceVar(coll),
                                                found.units, idx[2]))),
                    data, coll, Tail(items))

\* if hasattr(m, '<coll>'): splice every constraint of the collection.
SpliceCollection(m, data, coll) ==
    IF coll \in DOMAIN m.zonal
    THEN SpliceItems(m, data, coll, Items(m, coll))
    ELSE [m |-> m, raises |-> FALSE]

\* ----------------------------------------------------------- capabilities
\* _get_storage_reg_up_capability
GetStorageRegUpCapability(m, s, t) ==
    Min(m.MaximumPowerOutputStorage[s],
        PerMinutes(m.NominalRampUpLimitStorageOutput[s], RegulationMinutes))

\* _get_storage_reg_dn_capability
GetStorageRegDnCapability(m, s, t) ==
    Min(m.MaximumPowerOutputStorage[s],
        PerMinutes(m.NominalRampDownLimitStorageOutput[s], RegulationMinutes))

\* ------------------------------------------------------- sub-operations
\* Assigning a component to the model: a later assignment of the same name
\* replaces the earlier one.
WithVars(m, names, domain) ==
    [m EXCEPT !.var = [n \in names |-> domain] @@ @]

WithLimits(m, names) == [m EXCEPT !.limit = @ \cup names]

WithParam(m, name, value) == [m EXCEPT !.param = (name :> value) @@ @]

WithExpression(m, name, value) == [m EXCEPT !.expr = (name :> value) @@ @]

StorageTimes(m) == m.Storage \X TimePeriods

\* _add_storage_regulation_services
AddStorageRegulationServices(m, data) ==
    LET m1 == WithParam(m, "StorageRegulationUpCapability",
                [p \in StorageTimes(m) |->
                    GetStorageRegUpCapability(m, p[1], p[2])])
        m2 == WithParam(m1, "StorageRegulationDnCapability",
                [p \in StorageTimes(m) |->
                    GetStorageRegDnCapability(m, p[1], p[2])])
        m3 == WithVars(m2, {"StorageRegulationReserveUp",
                            "StorageRegulationReserveDn"}, "NonNegativeReals")
        m4 == WithVars(m3, {"StorageRegulationOn"}, "Binary")
        m5 == WithLimits(m4, {"StorageRegulationUpLimit",
                              "StorageRegulationDnLimit"})
    IN  SpliceCollection(m5, data, RegCollection)

\* _add_storage_spinning_reserve
AddStorageSpinningReserve(m, data) ==
    LET m1 == WithVars(m, {"StorageSpinningReserve"}, "NonNegativeReals")
        m2 == WithLimits(m1, {"StorageSpinningReserveLimit"})
    IN  SpliceCollection(m2, data, SpinCollection)

\* _add_storage_flexible_ramping
AddStorageFlexibleRamping(m, data) ==
    LET m1 == WithVars(m, {"StorageFlexUpProvided", "StorageFlexDnProvided"},
                       "NonNegativeReals")
        m2 == WithLimits(m1, {"StorageFlexUpLimit"})
    IN  SpliceCollection(m2, data, FlexCollection)

\* storage_reg_cost_rule
StorageRegCostRule(s, t) ==
    [price |-> "RegulationOfferMarginalCost.default",
     hours |-> "TimePeriodLengthHours",
     quantity |-> SetToBag({<<"StorageRegulationReserveUp", s, t>>,
                            <<"StorageRegulationReserveDn", s, t>>})]

\* storage_spin_cost_rule
StorageSpinCostRule(s, t) ==
    [price |-> "SpinningReservePrice.default",
     hours |-> "TimePeriodLengthHours",
     quantity |-> SetToBag({<<"StorageSpinningReserve", s, t>>})]

\* sum(StorageRegulationCost[s,t] + StorageSpinningReserveCost[s,t]
\*     for s in m.Storage): the two cost terms of every unit at period t.
RECURSIVE CostTermsAt(_, _)
CostTermsAt(ss, t) ==
    IF ss = <<>> THEN <<>>
    ELSE << <<"StorageRegulationCost", Head(ss), t>>,
            <<"StorageSpinningReserveCost", Head(ss), t>> >>
         \o CostTermsAt(Tail(ss), t)

\* sum(sum(... for s in m.Storage) for t in m.GenerationTimeInStage[st])
RECURSIVE StorageAsCostTerms(_, _)
StorageAsCostTerms(m, ts) ==
    IF ts = <<>> THEN <<>>
    ELSE CostTermsAt(InOrder(StorageOrder, m.Storage), Head(ts))
         \o StorageAsCostTerms(m, Tail(ts))

\* The storage cost summed over every period, whatever the stage.
StorageAsCostEveryPeriod(m, st) ==
    SumBag(StorageAsCostTerms(m, [t \in 1 .. NumTimePeriods |-> t]))

StorageAsCost(m, st) ==
    SumBag(StorageAsCostTerms(m,
        InOrder([t \in 1 .. NumTimePeriods |-> t], GenerationTimeInStage(st))))

\* m.GenerationStageCost[st] = old_expr + storage_as_cost
NewStageCost(old_expr, storage_as_cost) == old_expr (+) storage_as_cost

\* _modify_objective_function
ModifyObjectiveFunction(m) ==
    LET m1 == WithExpression(m, "StorageRegulationCost",
                [p \in StorageTimes(m) |-> StorageRegCostRule(p[1], p[2])])
        m2 == WithExpression(m1, "StorageSpinningReserveCost",
                [p \in StorageTimes(m) |-> StorageSpinCostRule(p[1], p[2])])
    IN  [m2 EXCEPT !.GenerationStageCost =
            [st \in StageSet |->
                NewStageCost(m2.GenerationStageCost[st], StorageAsCost(m2, st))]]

\* _add_storage_ancillary_services: the four sub-operations in order; an
\* exception leaves the model as the failing sub-operation left it.
AddStorageAncillaryServices(m, data) ==
    LET r1 == AddStorageRegulationServices(m, data)
        r2 == AddStorageSpinningReserve(r1.m, data)
        r3 == AddStorageFlexibleRamping(r2.m, data)
    IN  IF r1.raises THEN r1
        ELSE IF r2.raises THEN r2
        ELSE IF r3.raises THEN r3
        ELSE [m |-> ModifyObjectiveFunction(r3.m), raises |-> FALSE]

\* ------------------------------------------------- constraints on a point
\* A point is the value of every variable indexed (s, t) in one assignment:
\* the five storage service variables, the regulation flag, and the base
\* model's dispatch variables of the unit.
ServiceVars ==
    {"StorageRegulationReserveUp", "StorageRegulationReserveDn",
     "StorageSpinningReserve", "StorageFlexUpProvided",
     "StorageFlexDnProvided"}

\* storage_reg_up_limit_rule
StorageRegUpLimitRule(m, s, t, x) ==
    x.StorageRegulationReserveUp
        <= m.param["StorageRegulationUpCapability"][<<s, t>>]
           * x.StorageRegulationOn

\* storage_reg_dn_limit_rule
StorageRegDnLimitRule(m, s, t, x) ==
    x.StorageRegulationReserveDn
        <= m.param["StorageRegulationDnCapability"][<<s, t>>]
           * x.StorageRegulationOn

\* The right-hand side of storage_spin_limit_rule.
SpinLimit(m, s, t, x) ==
    LET discharge_capacity ==
            m.MaximumPowerOutputStorage[s] - x.PowerOutputStorage
        ramp_capacity == m.ScaledNominalRampUpLimitStorageOutput[s]
    IN  Min(discharge_capacity, ramp_capacity) * (1 - x.InputStorage)

\* storage_spin_limit_rule
StorageSpinLimitRule(m, s, t, x) ==
    x.StorageSpinningReserve <= SpinLimit(m, s, t, x)

\* The right-hand side of storage_flex_up_limit_rule before the last period.
FlexUpLimit(m, s, t, x) ==
    LET headroom == m.MaximumPowerOutputStorage[s] - x.PowerOutputStorage
        charge_reduction == x.PowerInputStorage
        ramp_limit ==
            PerMinutes(m.NominalRampUpLimitStorageOutput[s], FlexRampMinutes)
    IN  Min(headroom + charge_reduction, ramp_limit)

\* storage_flex_up_limit_rule
StorageFlexUpLimitRule(m, s, t, x) ==
    IF t = NumTimePeriods
    THEN x.StorageFlexUpProvided = 0
    ELSE x.StorageFlexUpProvided <= FlexUpLimit(m, s, t, x)

\* The rule of each limit constraint the extension adds.
LimitRule(name, m, s, t, x) ==
    CASE name = "StorageRegulationUpLimit" -> StorageRegUpLimitRule(m, s, t, x)
      [] name = "StorageRegulationDnLimit" -> StorageRegDnLimitRule(m, s, t, x)
      [] name = "StorageSpinningReserveLimit" -> StorageSpinLimitRule(m, s, t, x)
      [] name = "StorageFlexUpLimit" -> StorageFlexUpLimitRule(m, s, t, x)

\* within=pe.NonNegativeReals / within=pe.Binary, on the bounded value range.
Within(domain) ==
    IF domain = "Binary" THEN {0, 1} ELSE 0 .. MaxValue

\* Every point at unit s: the added variables in their declared domains, the
\* base dispatch variables in the base model's ranges.
Points(m, s) ==
    [StorageRegulationReserveUp : Within(m.var["StorageRegulationReserveUp"]),
     StorageRegulationReserveDn : Within(m.var["StorageRegulationReserveDn"]),
     StorageRegulationOn : Within(m.var["StorageRegulationOn"]),
     StorageSpinningReserve : Within(m.var["StorageSpinningReserve"]),
     StorageFlexUpProvided : Within(m.var["StorageFlexUpProvided"]),
     StorageFlexDnProvided : Within(m.var["StorageFlexDnProvided"]),
     PowerOutputStorage : 0 .. m.MaximumPowerOutputStorage[s],
     PowerInputStorage : 0 .. m.MaximumPowerInputStorage[s],
     InputStorage : {0, 1}]

\* The point satisfies every limit constraint the model holds at (s, t).
Satisfies(m, s, t, x) ==
    \A name \in m.limit : LimitRule(name, m, s, t, x)

\* ------------------------------------------------------------------ Init
\* A zone entry of model_data.data['elements']['zone']: without a 'buses'
\* list, or with one.
ZoneEntries ==
    {[has_buses |-> FALSE, buses |-> {}],
     [has_buses |-> TRUE, buses |-> {"b1"}],
     [has_buses |-> TRUE, buses |-> {"b1", "b2"}]}

\* Physical ratings of the storage units: s1 is power-limited (its rated
\* output is below what its ramp rate allows), s2 is ramp-limited.
Ratings ==
    [s1 |-> [max_out |-> 1, ramp |-> 12, scaled |-> 2],
     s2 |-> [max_out |-> 2, ramp |-> 6, scaled |-> 1]]

\* The base model create_tight_unit_commitment_model builds: every present
\* zonal requirement is `aggregate provision >= requirement`.
BaseModel(storage, bus_of, reg_zones, present) ==
    [Storage |-> storage,
     StorageAtBus |-> [b \in Buses |-> {s \in storage : bus_of[s] = b}],
     RegulationZones |-> reg_zones,
     SpinningReserveZones |-> ZoneIds,
     FlexRampZones |-> ZoneIds,
     MaximumPowerOutputStorage |-> [s \in storage |-> Ratings[s].max_out],
     MaximumPowerInputStorage |-> [s \in storage |-> 1],
     NominalRampUpLimitStorageOutput |-> [s \in storage |-> Ratings[s].ramp],
     NominalRampDownLimitStorageOutput |-> [s \in storage |-> Ratings[s].ramp],
     ScaledNominalRampUpLimitStorageOutput |->
         [s \in storage |-> Ratings[s].scaled],
     zonal |-> [coll \in present |->
                 [idx \in (CASE coll = RegCollection -> reg_zones
                             [] OTHER -> ZoneIds) \X TimePeriods |->
                     [body |-> SetToBag({<<coll, idx[1], idx[2]>>}),
                      lower |-> Some(idx[2]),
                      upper |-> None]]],
     GenerationStageCost |->
         [st \in StageSet |-> SetToBag({<<"GenerationStageCost", st, 0>>})],
     var |-> <<>>,
     limit |-> {},
     param |-> <<>>,
     expr |-> <<>>]

Init ==
    /\ \E storage \in SUBSET StorageIds,
          bus_of \in [StorageIds -> BusIds \cup {NoBus}],
          zones \in SUBSET ZoneIds,
          entry \in [ZoneIds -> ZoneEntries],
          reg_zones \in {{"z1"}, ZoneIds},
          present \in SUBSET Collections :
        /\ \A s \in StorageIds \ storage : bus_of[s] = NoBus
        /\ \A z \in ZoneIds \ zones : entry[z] = [has_buses |-> FALSE, buses |-> {}]
        /\ model_data = [zone |-> [z \in zones |-> entry[z]]]
        /\ base_model = BaseModel(storage, bus_of, reg_zones, present)
    /\ uc_model = None
    /\ applications = 0
    /\ raised = FALSE
    /\ handed = [called |-> FALSE, model |-> None]
    /\ sol = None

\* --------------------------------------------------------------- actions
\* create_and_extend_model: builds the base model, stores it in
\* self.uc_model, then extends it in place; an exception of the extension
\* leaves the partly extended model in self.uc_model.
CreateAndExtendModel ==
    LET r == AddStorageAncillaryServices(base_model, model_data)
    IN  /\ uc_model' = Some(r.m)
        /\ raised' = r.raises
        /\ applications' = 1
        /\ UNCHANGED <<model_data, base_model, handed, sol>>

\* _add_storage_ancillary_services called again on the model self.uc_model
\* holds (nothing in the class prevents it).
AddStorageAncillaryServicesAgain ==
    /\ uc_model # None
    /\ applications < MaxApplications
    /\ LET r == AddStorageAncillaryServices(uc_model[1], model_data)
       IN  /\ uc_model' = Some(r.m)
           /\ raised' = r.raises
    /\ applications' = applications + 1
    /\ UNCHANGED <<model_data, base_model, handed, sol>>

\* solve: hands self.uc_model, whatever it is, to solve_unit_commitment.
Solve ==
    /\ handed' = [called |-> TRUE, model |-> uc_model]
    /\ sol' = None
    /\ UNCHANGED <<model_data, base_model, uc_model, applications, raised>>

\* The values the solver left at one index (s, t) of the model it was
\* handed, as value(model.<Var>[s,t]) reads them: any point that satisfies
\* the constraints the model holds there.  One index is inspected per solve.
Inspect ==
    /\ handed.called
    /\ sol = None
    /\ handed.model # None
    /\ ServiceVars \cup {"StorageRegulationOn"} \subseteq DOMAIN handed.model[1].var
    /\ \E s \in handed.model[1].Storage, t \in TimePeriods :
         \E x \in Points(handed.model[1], s) :
            /\ Satisfies(handed.model[1], s, t, x)
            /\ sol' = Some([s |-> s, t |-> t, x |-> x])
    /\ UNCHANGED <<model_data, base_model, uc_model, applications, raised, handed>>

Next ==
    \/ CreateAndExtendModel
    \/ AddStorageAncillaryServicesAgain
    \/ Solve

Spec == Init /\ [][Next]_vars

\* The test's run with every lookup resolvable and no zonal requirement in
\* the base model: both units at one bus, solved and inspected.
InitSolve ==
    /\ Init
    /\ base_model.Storage = StorageIds
    /\ \E b \in Buses : base_model.StorageAtBus[b] = StorageIds
    /\ base_model.RegulationZones = ZoneIds
    /\ DOMAIN base_model.zonal = {}
    /\ DOMAIN model_data.zone = ZoneIds
    /\ \A z \in ZoneIds : model_data.zone[z].has_buses

NextSolve ==
    \/ Next
    \/ Inspect

SpecSolve == InitSolve /\ [][NextSolve]_vars

\* ------------------------------------------------- reference definitions
\* The storage units whose bus is listed in the zone's 'buses' membership.
UnitsInZone(zone) ==
    {s \in base_model.Storage :
        \E b \in Buses :
            /\ s \in base_model.StorageAtBus[b]
            /\ zone \in DOMAIN model_data.zone
            /\ model_data.zone[zone].has_buses
            /\ b \in model_data.zone[zone].buses}

\* sum of the collection's service variable at period t over the zone's units.
ExpectedContribution(coll, idx) ==
    SetToBag({<<ServiceVar(coll), s, idx[2]>> : s \in UnitsInZone(idx[1])})

\* The storage cost terms of the periods of stage st, one of each.
ExpectedStageCost(st) ==
    SetToBag({<<name, s, t>> :
        name \in {"StorageRegulationCost", "StorageSpinningReserveCost"},
        s \in base_model.Storage,
        t \in {u \in TimePeriods : u \in GenerationTimeInStage(st)}})

\* k copies of every element of bag B.
Times(k, B) == [e \in DOMAIN B |-> k * B[e]]

\* The model after k complete applications of the extension to the base.
RECURSIVE ApplyTimes(_)
ApplyTimes(k) ==
    IF k = 0 THEN [m |-> base_model, raises |-> FALSE]
    ELSE LET r == ApplyTimes(k - 1)
         IN  IF r.raises THEN r
             ELSE AddStorageAncillaryServices(r.m, model_data)

\* All four sub-operations have completed on mm (None or a model).
FullyExtended(mm) ==
    /\ mm # None
    /\ \E k \in 1 .. MaxApplications :
         /\ ~ApplyTimes(k).raises
         /\ mm[1] = ApplyTimes(k).m

\* The last call on self.uc_model was one complete application to the base.
ExtendedOnce == uc_model # None /\ applications = 1 /\ ~raised

\* ---------------------------------------------------------------- claims
\* C1: after the extension, every pre-existing zonal requirement constraint
\* has the old aggregate plus the storage contribution as its body, the same
\* requirement as its lower bound, and still no upper bound (sense >=).
C1_RequirementPreserved ==
    ExtendedOnce =>
        \A coll \in DOMAIN base_model.zonal :
            \A idx \in DOMAIN base_model.zonal[coll] :
                LET old == base_model.zonal[coll][idx]
                    new == uc_model[1].zonal[coll][idx]
                IN  /\ new.body = old.body (+) ExpectedContribution(coll, idx)
                    /\ new.lower = old.lower
                    /\ new.upper = None

\* The capability bound of a service variable at a point; the flex-down
\* provision is bounded as the flex-up provision is.
Capability(m, v, s, t, x) ==
    CASE v = "StorageRegulationReserveUp" ->
            m.param["StorageRegulationUpCapability"][<<s, t>>]
      [] v = "StorageRegulationReserveDn" ->
            m.param["StorageRegulationDnCapability"][<<s, t>>]
      [] v = "StorageSpinningReserve" -> SpinLimit(m, s, t, x)
      [] OTHER -> IF t = NumTimePeriods THEN 0 ELSE FlexUpLimit(m, s, t, x)

\* The solver was handed a fully extended model and an index was inspected.
Inspected == sol # None /\ FullyExtended(handed.model)

\* C2: in every assignment that satisfies the added constraints, each of the
\* five storage service variables lies between 0 and its capability bound.
C2_ServiceVariablesBounded ==
    Inspected =>
        \A v \in ServiceVars :
            /\ 0 <= sol[1].x[v]
            /\ sol[1].x[v] <= Capability(handed.model[1], v,
                                         sol[1].s, sol[1].t, sol[1].x)

\* C3: in every assignment that satisfies the added constraints, flex-up and
\* flex-down provision at the last period are both 0.
C3_FlexZeroAtLastPeriod ==
    (Inspected /\ sol[1].t = NumTimePeriods) =>
        /\ sol[1].x.StorageFlexUpProvided = 0
        /\ sol[1].x.StorageFlexDnProvided = 0

\* C4: with no storage unit, the extension leaves every zonal requirement
\* constraint (body, bound, sense) and every stage cost as the base model
\* had them.
C4_NoStorageIsNoOp ==
    (ExtendedOnce /\ base_model.Storage = {}) =>
        /\ uc_model[1].zonal = base_model.zonal
        /\ uc_model[1].GenerationStageCost = base_model.GenerationStageCost

\* C5: whatever solve hands to the solver is a model on which all four
\* sub-operations have completed, never None and never a partly extended one.
C5_OnlyExtendedModelsSolved ==
    handed.called => FullyExtended(handed.model)

\* C6: no zone lookup a splice issues raises, whatever the zone data, and so
\* no extension call ends in an error.
C6_LookupsNeverRaise ==
    uc_model # None =>
        /\ ~raised
        /\ \A coll \in DOMAIN uc_model[1].zonal :
             \A idx \in DOMAIN uc_model[1].zonal[coll] :
                ~StorageInZone(uc_model[1], model_data, coll, idx[1]).raises

\* C7: when some zonal requirement collection is absent from the base model,
\* the extension completes without error, leaves the absent collections
\* absent, and defines the three storage variable collections.
C7_AbsentCollectionsTolerated ==
    (uc_model # None /\ applications = 1
        /\ Collections \ DOMAIN base_model.zonal # {}) =>
        /\ ~raised
        /\ DOMAIN uc_model[1].zonal = DOMAIN base_model.zonal
        /\ {"StorageRegulationReserveUp", "StorageSpinningReserve",
            "StorageFlexUpProvided"} \subseteq DOMAIN uc_model[1].var

\* C8: after objective augmentation every stage cost is the cost before plus,
\* once per application, the regulation and spinning cost terms of every
\* unit at every period of that stage; each cost term is price x period
\* length x the reserved quantity.
C8_StageCostAugmented ==
    (uc_model # None /\ ~raised) =>
        /\ \A st \in StageSet :
             uc_model[1].GenerationStageCost[st]
                = base_model.GenerationStageCost[st]
                    (+) Times(applications, ExpectedStageCost(st))
        /\ \A s \in base_model.Storage, t \in TimePeriods :
             /\ uc_model[1].expr["StorageRegulationCost"][<<s, t>>]
                  = [price |-> "RegulationOfferMarginalCost.default",
                     hours |-> "TimePeriodLengthHours",
                     quantity |->
                        SetToBag({<<"StorageRegulationReserveUp", s, t>>,
                                  <<"StorageRegulationReserveDn", s, t>>})]
             /\ uc_model[1].expr["StorageSpinningReserveCost"][<<s, t>>]
                  = [price |-> "SpinningReservePrice.default",
                     hours |-> "TimePeriodLengthHours",
                     quantity |->
                        SetToBag({<<"StorageSpinningReserve", s, t>>})]

\* A complete application of the extension to the base model was followed by
\* a second application to the same model object.
AppliedTwice == uc_model # None /\ applications = 2 /\ ~ApplyTimes(1).raises

\* The second application has added the storage contribution and the storage
\* cost a second time.
CountedTwice ==
    /\ ~raised
    /\ \A coll \in DOMAIN base_model.zonal :
         \A idx \in DOMAIN base_model.zonal[coll] :
            uc_model[1].zonal[coll][idx].body
                = base_model.zonal[coll][idx].body
                    (+) Times(2, ExpectedContribution(coll, idx))
    /\ \A st \in StageSet :
         uc_model[1].GenerationStageCost[st]
            = base_model.GenerationStageCost[st]
                (+) Times(2, ExpectedStageCost(st))

\* C9 as stated: a second application is not rejected and yields a model
\* that differs from the once-extended one, with contribution and cost
\* counted twice.
C9_SecondApplicationDiffers ==
    AppliedTwice => (CountedTwice /\ uc_model[1] # ApplyTimes(1).m)

\* C9 as amended: a second application is not rejected and counts
\* contribution and cost twice; the model it yields differs from the
\* once-extended one exactly when there is at least one storage unit.
C9_SecondApplicationDoubleCounts ==
    AppliedTwice =>
        /\ CountedTwice
        /\ (uc_model[1] # ApplyTimes(1).m) <=> (base_model.Storage # {})

\* C10: every spliced constraint gained exactly the service variable, at its
\* own period, of the units whose bus is in its zone, each once; and for the
\* zones the regulation splice queries the regulation lookup and the generic
\* lookup give the same outcome.
C10_SplicedUnitsAndLookupsAgree ==
    /\ ExtendedOnce =>
        \A coll \in DOMAIN base_model.zonal :
            \A idx \in DOMAIN base_model.zonal[coll] :
                uc_model[1].zonal[coll][idx].body
                    = base_model.zonal[coll][idx].body
                        (+) ExpectedContribution(coll, idx)
    /\ (uc_model # None /\ RegCollection \in DOMAIN base_model.zonal) =>
        \A zone \in base_model.RegulationZones :
            GetStorageInRegZone(base_model, model_data, zone)
                = GetStorageInZone(base_model, model_data, zone,
                                   base_model.RegulationZones)

\* -------------------------------------------------------------- witnesses
\* C8: a model with storage units whose stage costs were augmented.
C8_Witness ==
    /\ ExtendedOnce
    /\ base_model.Storage = StorageIds
    /\ uc_model[1].GenerationStageCost # base_model.GenerationStageCost

\* C9: a model with a storage unit in a zone of a present collection,
\* extended twice without error.
C9_Witness ==
    /\ AppliedTwice
    /\ ~raised
    /\ \E coll \in DOMAIN base_model.zonal :
         \E idx \in DOMAIN base_model.zonal[coll] :
            ExpectedContribution(coll, idx) # EmptyBag

=============================================================================
